---- MODULE Spec2Model ----
(***************************************************************************)
(* A model of the realtor-agents scraper:                                  *)
(*   - extractors/data_cleaner.py : the record normalizer (pure functions) *)
(*   - extractors/realtor_parser.py : the fetch/retry loop and the         *)
(*     pipeline driver scrape_from_urls                                    *)
(*   - main.py, outputs/exporters.py : the run and its exit status         *)
(*                                                                         *)
(* Python values are encoded as records of one fixed shape, so that any    *)
(* two of them can be compared:                                            *)
(*   t     : "none" | "str" | "int" | "bool" | "float" | "list" | "dict"   *)
(*   n, e  : the number (an int or bool is n; a float is n / 10^e)         *)
(*   s     : the characters of a str, one per element                      *)
(*   items : the entries of a list or dict, in insertion order, each       *)
(*           [k |-> key, v |-> value] (k = "" in a list)                   *)
(***************************************************************************)
EXTENDS Integers, Sequences, FiniteSets, TLC

VARIABLES
    \* ---- a call of one function of data_cleaner.py
    fn,          \* the function called
    arg,         \* its argument
    out,         \* its return value (PyNone until it has returned)
    cpc,         \* "call" before the call, "return" after it, "idle" otherwise
    \* ---- RealtorAgentScraper.scrape_from_urls
    urls,        \* the seed locations
    limit,       \* the limit: None or an int (a Python value)
    all_agents,  \* the list being returned
    count,       \* the local counter
    i,           \* position of the for loop over urls
    pc,          \* position of the driver
    ctx,         \* which call of _get_with_retries is running
    furl,        \* the url being fetched
    attempt,     \* the loop variable of _get_with_retries
    gets,        \* GET requests issued by the current _get_with_retries call
    last_exc,    \* whether an exception has been recorded by this call
    resp,        \* the value _get_with_retries returned
    sleeps,      \* the sleeps of the current call, in order (tenths of a second)
    agent_links, \* _scrape_listing: the collected links
    agents,      \* _scrape_listing: the local result list
    j,           \* _scrape_listing: position of the for loop over agent_links
    origin,      \* history: for each record of all_agents, <<seed index, link index>>
    lorigin,     \* history: for each record of agents, the index of its link
    failed,      \* history: the fetches given up, each <<ctx, url>>
    \* ---- a call of RealtorAgentScraper._scrape_agent_profile on a fetched page
    purl,        \* the url of the profile
    page,        \* what the selectors find on the page
    full_agent_details, \* the flag of the scraper
    profile,     \* the AgentProfile being filled
    ppc,         \* position: the step to run next, "data", "returned" or "idle"
    steps,       \* history: the steps run, in order
    caught,      \* the step whose exception the except clause caught ("" if none)
    data,        \* the value returned
    \* ---- main
    mpc,         \* position of main
    args,        \* the command line: --formats (split at the commas) and --limit
    settings,    \* the settings file as read
    input,       \* the input file as read
    formats,     \* the export formats
    raw_agents,  \* the result of scrape_from_urls
    cleaned_agents, \* the result of clean_agents
    exported,    \* export_all: the formats written
    exit_code    \* the exit status of the run (-1 while running)

cleaner_vars == <<fn, arg, out, cpc>>
fetch_vars == <<furl, attempt, gets, last_exc, resp, sleeps>>
listing_vars == <<agent_links, agents, j, lorigin>>
driver_vars == <<urls, limit, all_agents, count, i, pc, ctx, origin, failed>>
main_vars ==
    <<mpc, args, settings, input, formats, raw_agents, cleaned_agents, exported, exit_code>>
profile_vars == <<purl, page, full_agent_details, profile, ppc, steps, caught, data>>
vars == <<cleaner_vars, driver_vars, fetch_vars, listing_vars, main_vars, profile_vars>>

(***************************************************************************)
(* Python values                                                           *)
(***************************************************************************)
PyNone == [t |-> "none", n |-> 0, e |-> 0, s |-> <<>>, items |-> <<>>]
PyStr(chars) == [t |-> "str", n |-> 0, e |-> 0, s |-> chars, items |-> <<>>]
PyInt(k) == [t |-> "int", n |-> k, e |-> 0, s |-> <<>>, items |-> <<>>]
PyBool(b) == [t |-> "bool", n |-> IF b THEN 1 ELSE 0, e |-> 0, s |-> <<>>, items |-> <<>>]
PyFloatRaw(k, d) == [t |-> "float", n |-> k, e |-> d, s |-> <<>>, items |-> <<>>]
PyDict(entries) == [t |-> "dict", n |-> 0, e |-> 0, s |-> <<>>, items |-> entries]
PyList(xs) ==
    [t |-> "list", n |-> 0, e |-> 0, s |-> <<>>,
     items |-> [p \in 1..Len(xs) |-> [k |-> "", v |-> xs[p]]]]
KV(key, val) == [k |-> key, v |-> val]

\* The elements of a list value, as a sequence of values.
Elems(v) == [p \in 1..Len(v.items) |-> v.items[p].v]

\* A float is kept with no trailing zero in its fraction: 4.50 is 4.5.
RECURSIVE PyFloat(_, _)
PyFloat(k, d) ==
    IF d > 0 /\ k % 10 = 0 THEN PyFloat(k \div 10, d - 1) ELSE PyFloatRaw(k, d)

\* bool(v)
Truthy(v) ==
    CASE v.t = "none" -> FALSE
      [] v.t = "str" -> Len(v.s) > 0
      [] v.t \in {"int", "bool", "float"} -> v.n # 0
      [] OTHER -> Len(v.items) > 0

isinstance_dict(v) == v.t = "dict"
isinstance_list(v) == v.t = "list"
isinstance_str(v) == v.t = "str"
\* bool is a subclass of int
isinstance_int(v) == v.t \in {"int", "bool"}
isinstance_float_int(v) == v.t \in {"float", "int", "bool"}

\* key in d
HasKey(d, key) == \E p \in 1..Len(d.items) : d.items[p].k = key
\* d[key]
Item(d, key) == d.items[CHOOSE p \in 1..Len(d.items) : d.items[p].k = key].v
\* d.get(key) and d.get(key, default)
GetOr(d, key, default) == IF HasKey(d, key) THEN Item(d, key) ELSE default
Get(d, key) == GetOr(d, key, PyNone)
\* d[key] = val : a new key goes last, an old key keeps its place
DictSet(d, key, val) ==
    IF HasKey(d, key)
    THEN PyDict([p \in 1..Len(d.items) |->
                    IF d.items[p].k = key THEN KV(key, val) ELSE d.items[p]])
    ELSE PyDict(Append(d.items, KV(key, val)))
EmptyDict == PyDict(<<>>)

(***************************************************************************)
(* Text: str.isdigit, str.strip, " ".join(x.split()), int(), repr(), str() *)
(***************************************************************************)
Digit == <<"0", "1", "2", "3", "4", "5", "6", "7", "8", "9">>
isdigit(c) == \E d \in 1..10 : Digit[d] = c
DigitVal(c) == (CHOOSE d \in 1..10 : Digit[d] = c) - 1
isspace(c) == c = " "

strip(chars) ==
    LET keep == {p \in 1..Len(chars) : ~isspace(chars[p])}
        lo == CHOOSE p \in keep : \A q \in keep : p <= q
        hi == CHOOSE p \in keep : \A q \in keep : q <= p
    IN IF keep = {} THEN <<>> ELSE SubSeq(chars, lo, hi)

\* " ".join(chars.split()) : the words of chars, one space between two of them
RECURSIVE JoinSplitFrom(_, _, _)
JoinSplitFrom(chars, p, acc) ==
    IF p > Len(chars) THEN acc
    ELSE IF isspace(chars[p]) THEN JoinSplitFrom(chars, p + 1, acc)
    ELSE JoinSplitFrom(chars, p + 1,
            IF acc # <<>> /\ p > 1 /\ isspace(chars[p - 1])
            THEN acc \o <<" ", chars[p]>> ELSE Append(acc, chars[p]))
JoinSplit(chars) == JoinSplitFrom(chars, 1, <<>>)

\* "".join(ch for ch in chars if ch.isdigit())
OnlyDigits(chars) == SelectSeq(chars, isdigit)

\* int(digits) for a non-empty run of digits
RECURSIVE ParseInt(_)
ParseInt(digits) ==
    IF digits = <<>> THEN 0
    ELSE 10 * ParseInt(SubSeq(digits, 1, Len(digits) - 1)) + DigitVal(digits[Len(digits)])

RECURSIVE IntDigits(_)
IntDigits(k) ==
    IF k < 10 THEN <<Digit[k + 1]>>
    ELSE Append(IntDigits(k \div 10), Digit[(k % 10) + 1])
IntRepr(k) == IF k < 0 THEN <<"-">> \o IntDigits(-k) ELSE IntDigits(k)

RECURSIVE Pow10(_)
Pow10(d) == IF d = 0 THEN 1 ELSE 10 * Pow10(d - 1)
RECURSIVE ZeroPad(_, _)
ZeroPad(digits, width) ==
    IF Len(digits) >= width THEN digits ELSE ZeroPad(<<"0">> \o digits, width)
FloatRepr(k, d) ==
    IntDigits(k \div Pow10(d)) \o <<".">> \o
    (IF d = 0 THEN <<"0">> ELSE ZeroPad(IntDigits(k % Pow10(d)), d))

\* repr(v); a dict key is one token
RECURSIVE Repr(_)
RECURSIVE ReprItems(_, _, _)
ReprItems(entries, p, isdict) ==
    IF p > Len(entries) THEN <<>>
    ELSE (IF p > 1 THEN <<",", " ">> ELSE <<>>)
         \o (IF isdict THEN <<"'", entries[p].k, "'", ":", " ">> ELSE <<>>)
         \o Repr(entries[p].v)
         \o ReprItems(entries, p + 1, isdict)
Repr(v) ==
    CASE v.t = "none" -> <<"N", "o", "n", "e">>
      [] v.t = "str" -> <<"'">> \o v.s \o <<"'">>
      [] v.t = "int" -> IntRepr(v.n)
      [] v.t = "bool" -> IF v.n = 1 THEN <<"T", "r", "u", "e">>
                                    ELSE <<"F", "a", "l", "s", "e">>
      [] v.t = "float" -> FloatRepr(v.n, v.e)
      [] v.t = "list" -> <<"[">> \o ReprItems(v.items, 1, FALSE) \o <<"]">>
      [] OTHER -> <<"{">> \o ReprItems(v.items, 1, TRUE) \o <<"}">>
\* str(v)
Str(v) == IF v.t = "str" THEN v.s ELSE Repr(v)

(***************************************************************************)
(* extractors/data_cleaner.py                                              *)
(***************************************************************************)
CommentLimit == 2000
Ellipsis == <<".", ".", ".">>

\* if cond: d[key] = val
SetIf(cond, d, key, val) == IF cond THEN DictSet(d, key, val) ELSE d
\* if val is not None: d[key] = val
SetIfNotNone(d, key, val) == IF val # PyNone THEN DictSet(d, key, val) ELSE d
\* if val: d[key] = val
SetIfTruthy(d, key, val) == IF Truthy(val) THEN DictSet(d, key, val) ELSE d
\* if val: result.append(val)
ItemIfTruthy(val) == IF Truthy(val) THEN <<val>> ELSE <<>>

isPhoneChar(c) == isdigit(c) \/ c = "+"
\* "".join(cleaned) or number
NormalizedNumber(number) ==
    IF SelectSeq(number, isPhoneChar) # <<>> THEN SelectSeq(number, isPhoneChar) ELSE number
\* phone.get("type") or None, a str stripped (or None when nothing is left)
PhoneType(raw_type) ==
    IF ~Truthy(raw_type) THEN PyNone
    ELSE IF isinstance_str(raw_type)
    THEN (IF strip(raw_type.s) # <<>> THEN PyStr(strip(raw_type.s)) ELSE PyNone)
    ELSE raw_type
PhoneResult(phone, number) ==
    IF number = <<>> THEN PyNone
    ELSE SetIf(HasKey(phone, "ext") /\ Truthy(Get(phone, "ext")),
               SetIfTruthy(PyDict(<<KV("number", PyStr(NormalizedNumber(number)))>>),
                           "type", PhoneType(Get(phone, "type"))),
               "ext", PyStr(strip(Str(Get(phone, "ext")))))
_clean_phone(phone) == PhoneResult(phone, strip(Str(GetOr(phone, "number", PyStr(<<>>)))))

\* items and the result are sequences of values; seen holds the repr keys
RECURSIVE DedupeFrom(_, _, _, _)
DedupeStep(items, p, seen, result, key) ==
    IF key \notin seen
    THEN DedupeFrom(items, p + 1, seen \cup {key}, Append(result, items[p]))
    ELSE DedupeFrom(items, p + 1, seen, result)
DedupeFrom(items, p, seen, result) ==
    IF p > Len(items) THEN result
    ELSE DedupeStep(items, p, seen, result, Repr(items[p]))
_dedupe_list(items) == DedupeFrom(items, 1, {}, <<>>)

\* int(digits) if digits else None
IntOrNone(digits) == IF digits # <<>> THEN PyInt(ParseInt(digits)) ELSE PyNone
_to_int(value) ==
    IF value.t = "none" THEN PyNone
    ELSE IF isinstance_int(value) THEN value
    ELSE IntOrNone(OnlyDigits(Str(value)))

\* the characters _to_float keeps: the digits and the first dot
RECURSIVE FloatParts(_, _, _)
FloatParts(text, p, dot_seen) ==
    IF p > Len(text) THEN <<>>
    ELSE IF isdigit(text[p]) THEN <<text[p]>> \o FloatParts(text, p + 1, dot_seen)
    ELSE IF text[p] = "." /\ ~dot_seen THEN <<".">> \o FloatParts(text, p + 1, TRUE)
    ELSE FloatParts(text, p + 1, dot_seen)
\* text.replace(",", ".")
CommaToDot(text) == [p \in 1..Len(text) |-> IF text[p] = "," THEN "." ELSE text[p]]
\* the digits of parts after its dot
FracDigits(parts) ==
    IF \E p \in 1..Len(parts) : parts[p] = "."
    THEN Len(parts) - (CHOOSE p \in 1..Len(parts) : parts[p] = ".")
    ELSE 0
\* float("".join(parts)) if parts else None; float of a text with no digit
\* raises ValueError, which _to_float catches
FloatOrNone(parts) ==
    IF OnlyDigits(parts) = <<>> THEN PyNone
    ELSE PyFloat(ParseInt(OnlyDigits(parts)), FracDigits(parts))
_to_float(value) ==
    IF value.t = "none" THEN PyNone
    ELSE IF isinstance_float_int(value) THEN PyFloat(value.n, value.e)
    ELSE FloatOrNone(FloatParts(CommaToDot(strip(Str(value))), 1, FALSE))

_clean_office(office) ==
    SetIf(HasKey(office, "address") /\ isinstance_dict(Get(office, "address")),
      SetIf(HasKey(office, "raw_address") /\ Truthy(Get(office, "raw_address")),
        SetIf(HasKey(office, "website") /\ Truthy(Get(office, "website")),
          SetIf(HasKey(office, "name") /\ Truthy(Get(office, "name")),
            EmptyDict,
            "name", PyStr(strip(Str(Get(office, "name"))))),
          "website", PyStr(strip(Str(Get(office, "website"))))),
        "address", PyDict(<<KV("raw", PyStr(JoinSplit(Str(Get(office, "raw_address")))))>>)),
      "address", Get(office, "address"))

AddressKeys == <<"line", "city", "state", "postal_code", "raw">>
RECURSIVE CleanAddressFrom(_, _, _)
CleanAddressFrom(address, p, cleaned) ==
    IF p > Len(AddressKeys) THEN cleaned
    ELSE CleanAddressFrom(address, p + 1,
            SetIf(HasKey(address, AddressKeys[p]) /\ Truthy(Get(address, AddressKeys[p])),
                  cleaned, AddressKeys[p],
                  PyStr(JoinSplit(Str(Get(address, AddressKeys[p]))))))
_clean_address(address) == CleanAddressFrom(address, 1, EmptyDict)

\* ---- clean_agent_record, stage by stage; each stage maps cleaned to cleaned

ScalarFields == <<"description", "experience", "web_url", "title", "photo", "advertiser_id">>
RECURSIVE CleanScalarsFrom(_, _, _)
CleanScalarsFrom(agent, p, cleaned) ==
    IF p > Len(ScalarFields) THEN cleaned
    ELSE CleanScalarsFrom(agent, p + 1,
            SetIf(HasKey(agent, ScalarFields[p]) /\ Truthy(Get(agent, ScalarFields[p])),
                  cleaned, ScalarFields[p],
                  PyStr(JoinSplit(Str(Get(agent, ScalarFields[p]))))))
\* CleanScalars keeping no scalar field
CleanScalars_Dropped(agent, cleaned) == cleaned
\* the loop over the simple scalar fields
CleanScalars(agent, cleaned) == CleanScalarsFrom(agent, 1, cleaned)

CleanNumeric(agent, cleaned) ==
    SetIfNotNone(
      SetIfNotNone(
        SetIfTruthy(cleaned, "first_year", _to_int(Get(agent, "first_year"))),
        "review_count", _to_int(Get(agent, "review_count"))),
      "agent_rating", _to_float(Get(agent, "agent_rating")))

\* the list phones of clean_agent_record, before _dedupe_list
RECURSIVE PhonesFrom(_, _)
PhonesFrom(raws, p) ==
    IF p > Len(raws) THEN <<>>
    ELSE (IF isinstance_dict(raws[p]) THEN ItemIfTruthy(_clean_phone(raws[p])) ELSE <<>>)
         \o PhonesFrom(raws, p + 1)
\* x or []
OrEmptyList(x) == IF Truthy(x) THEN x ELSE PyList(<<>>)
PhonesOf(raw_phones) ==
    IF isinstance_list(raw_phones) THEN PhonesFrom(Elems(raw_phones), 1) ELSE <<>>
\* if items: cleaned[key] = _dedupe_list(items)
SetDeduped(cleaned, key, items) ==
    IF items # <<>> THEN DictSet(cleaned, key, PyList(_dedupe_list(items))) ELSE cleaned
CleanPhones(agent, cleaned) ==
    SetDeduped(cleaned, "phones", PhonesOf(OrEmptyList(Get(agent, "phones"))))

CleanAddress(agent, cleaned) ==
    IF isinstance_dict(Get(agent, "address"))
    THEN SetIfTruthy(cleaned, "address", _clean_address(Get(agent, "address")))
    ELSE cleaned

CleanOffice(agent, cleaned) ==
    IF isinstance_dict(Get(agent, "office"))
    THEN SetIfTruthy(cleaned, "office", _clean_office(Get(agent, "office")))
    ELSE cleaned

\* [str(s).strip() for s in specs if s]
RECURSIVE SpecsFrom(_, _)
SpecsFrom(specs, p) ==
    IF p > Len(specs) THEN <<>>
    ELSE (IF Truthy(specs[p]) THEN <<PyStr(strip(Str(specs[p])))>> ELSE <<>>)
         \o SpecsFrom(specs, p + 1)
SpecsOf(specs) == IF isinstance_list(specs) THEN SpecsFrom(Elems(specs), 1) ELSE <<>>
CleanSpecializations(agent, cleaned) ==
    SetDeduped(cleaned, "specializations", SpecsOf(OrEmptyList(Get(agent, "specializations"))))

\* {k: " ".join(str(v).split()) for k, v in broker.items() if v}
RECURSIVE BrokerFrom(_, _)
BrokerFrom(entries, p) ==
    IF p > Len(entries) THEN <<>>
    ELSE (IF Truthy(entries[p].v)
          THEN <<KV(entries[p].k, PyStr(JoinSplit(Str(entries[p].v))))>> ELSE <<>>)
         \o BrokerFrom(entries, p + 1)
CleanBroker(agent, cleaned) ==
    IF isinstance_dict(Get(agent, "broker"))
    THEN SetIfTruthy(cleaned, "broker", PyDict(BrokerFrom(Get(agent, "broker").items, 1)))
    ELSE cleaned

\* fs[key] = _to_int(fs[key]) for each key of keys that fs has
RECURSIVE CoerceKeys(_, _, _)
CoerceKeys(fs, keys, p) ==
    IF p > Len(keys) THEN fs
    ELSE CoerceKeys(SetIf(HasKey(fs, keys[p]), fs, keys[p], _to_int(Get(fs, keys[p]))),
                    keys, p + 1)
CleanRecentlySold(agent, cleaned) ==
    IF isinstance_dict(Get(agent, "recently_sold"))
    THEN DictSet(cleaned, "recently_sold",
                 CoerceKeys(Get(agent, "recently_sold"), <<"count">>, 1))
    ELSE cleaned
CleanForSalePrice(agent, cleaned) ==
    IF isinstance_dict(Get(agent, "for_sale_price"))
    THEN DictSet(cleaned, "for_sale_price",
                 CoerceKeys(Get(agent, "for_sale_price"), <<"min", "max", "count">>, 1))
    ELSE cleaned

\* Truncate with the test len(text) >= 2000
Truncate_AtLimit(text) ==
    IF Len(text) >= CommentLimit THEN SubSeq(text, 1, CommentLimit) \o Ellipsis ELSE text
\* text[:2000] + "..." if len(text) > 2000 else text
Truncate(text) ==
    IF Len(text) > CommentLimit THEN SubSeq(text, 1, CommentLimit) \o Ellipsis ELSE text
\* the text kept for a review comment
CleanComment(comment) == Truncate(strip(Str(comment)))

\* the mapping r built for one review
ReviewRating(review) ==
    IF HasKey(review, "rating")
    THEN SetIfNotNone(EmptyDict, "rating", _to_float(Get(review, "rating")))
    ELSE EmptyDict
CleanReview(review) ==
    SetIf(HasKey(review, "comment") /\ Truthy(Get(review, "comment")),
          ReviewRating(review), "comment", PyStr(CleanComment(Get(review, "comment"))))
RECURSIVE ReviewsFrom(_, _)
ReviewsFrom(reviews, p) ==
    IF p > Len(reviews) THEN <<>>
    ELSE (IF isinstance_dict(reviews[p]) THEN ItemIfTruthy(CleanReview(reviews[p])) ELSE <<>>)
         \o ReviewsFrom(reviews, p + 1)
\* if items: cleaned[key] = items
SetIfAny(cleaned, key, items) ==
    IF items # <<>> THEN DictSet(cleaned, key, PyList(items)) ELSE cleaned
CleanReviews(agent, cleaned) ==
    IF isinstance_list(Get(agent, "reviews"))
    THEN SetIfAny(cleaned, "reviews", ReviewsFrom(Elems(Get(agent, "reviews")), 1))
    ELSE cleaned

CleanRecommendations(agent, cleaned) ==
    IF isinstance_list(Get(agent, "recommendations"))
    THEN SetIfAny(cleaned, "recommendations",
                  SelectSeq(Elems(Get(agent, "recommendations")), isinstance_dict))
    ELSE cleaned

clean_agent_record(agent) ==
    CleanRecommendations(agent,
     CleanReviews(agent,
      CleanForSalePrice(agent,
       CleanRecentlySold(agent,
        CleanBroker(agent,
         CleanSpecializations(agent,
          CleanOffice(agent,
           CleanAddress(agent,
            CleanPhones(agent,
             CleanNumeric(agent,
              CleanScalars(agent, EmptyDict)))))))))))

\* agents and the result are sequences of values
RECURSIVE CleanAgentsFrom(_, _)
CleanAgentsFrom(agent_seq, p) ==
    IF p > Len(agent_seq) THEN <<>>
    ELSE (IF isinstance_dict(agent_seq[p])
          THEN ItemIfTruthy(clean_agent_record(agent_seq[p])) ELSE <<>>)
         \o CleanAgentsFrom(agent_seq, p + 1)
clean_agents(agent_seq) == CleanAgentsFrom(agent_seq, 1)

(***************************************************************************)
(* The calls of data_cleaner.py that are checked: the arguments            *)
(***************************************************************************)
MaxFields == 2
MaxListLen == 3
MaxPhones == 2
MaxAgents == 2

\* text of n characters that differs from place to place
LongText(len) == [p \in 1..len |-> IF p % 5 = 0 THEN "b" ELSE "a"]

TextValues ==
    {PyNone, PyStr(<<>>), PyStr(<<" ">>), PyStr(<<" ", "a", " ", " ", "b">>), PyInt(7)}
IntValues ==
    {PyNone, PyInt(0), PyInt(2005), PyStr(<<"1", "2", " ", "x">>), PyStr(<<"x">>), PyBool(TRUE)}
FloatValues ==
    {PyNone, PyFloat(45, 1), PyInt(0), PyStr(<<"4", ",", "5", ".", "0">>), PyStr(<<".">>),
     PyStr(<<"n", "a">>)}

PhoneNumbers == {PyStr(<<" ">>), PyStr(<<"(", "5", ")", " ", "1">>), PyStr(<<"a">>), PyInt(5)}
PhoneTypes == {PyNone, PyStr(<<" ">>), PyStr(<<" ", "M">>), PyInt(3)}
PhoneExts == {PyNone, PyStr(<<" ">>), PyStr(<<" ", "9">>), PyInt(9)}
RawPhones ==
    {PyDict(<<>>), PyStr(<<"5">>)}
    \cup {PyDict(<<KV("number", num)>>) : num \in PhoneNumbers}
    \cup {PyDict(<<KV("number", num), KV("type", ty)>>) : num \in PhoneNumbers, ty \in PhoneTypes}
    \cup {PyDict(<<KV("number", num), KV("ext", ex)>>) : num \in PhoneNumbers, ex \in PhoneExts}
    \cup {PyDict(<<KV("number", PyStr(<<"5">>)), KV("type", ty), KV("ext", ex)>>) :
              ty \in PhoneTypes, ex \in PhoneExts}

RECURSIVE SeqsUpTo(_, _)
SeqsUpTo(S, len) ==
    IF len = 0 THEN {<<>>}
    ELSE SeqsUpTo(S, len - 1)
         \cup {Append(q, x) : q \in {r \in SeqsUpTo(S, len - 1) : Len(r) = len - 1}, x \in S}

\* the phones tried in lists of several phones
ListedPhones ==
    {PyStr(<<"5">>), PyDict(<<KV("number", PyStr(<<" ">>))>>),
     PyDict(<<KV("number", PyStr(<<"(", "5", ")", " ", "1">>))>>),
     PyDict(<<KV("number", PyInt(5)), KV("type", PyStr(<<" ", "M">>))>>),
     PyDict(<<KV("number", PyStr(<<"5">>)), KV("ext", PyStr(<<" ">>))>>),
     PyDict(<<KV("number", PyStr(<<"5">>)), KV("type", PyNone), KV("ext", PyStr(<<" ", "9">>))>>)}
PhoneLists ==
    {PyList(<<x>>) : x \in RawPhones} \cup {PyList(q) : q \in SeqsUpTo(ListedPhones, MaxPhones)}

AddressValues ==
    {PyNone, PyStr(<<"a">>), EmptyDict, PyDict(<<KV("raw", PyStr(<<>>))>>),
     PyDict(<<KV("raw", PyStr(<<" ">>))>>),
     PyDict(<<KV("city", PyStr(<<"a", " ", " ", "b">>)), KV("zip", PyStr(<<"1">>))>>)}
OfficeValues ==
    {PyNone, PyList(<<>>), EmptyDict, PyDict(<<KV("name", PyStr(<<" ">>))>>),
     PyDict(<<KV("name", PyStr(<<" ", "a">>)), KV("raw_address", PyStr(<<"a", " ", " ", "b">>))>>),
     PyDict(<<KV("raw_address", PyStr(<<"a">>)), KV("address", EmptyDict)>>),
     PyDict(<<KV("website", PyStr(<<>>))>>)}
SpecializationValues ==
    {PyNone, PyStr(<<"a">>), PyList(<<>>), PyList(<<PyStr(<<>>)>>), PyList(<<PyStr(<<" ">>)>>),
     PyList(<<PyStr(<<"a">>), PyStr(<<" ", "a">>), PyStr(<<"b">>), PyInt(1)>>)}
BrokerValues ==
    {PyNone, EmptyDict, PyList(<<>>), PyDict(<<KV("name", PyStr(<<>>))>>),
     PyDict(<<KV("name", PyStr(<<" ">>))>>),
     PyDict(<<KV("name", PyStr(<<"a", " ", " ", "b">>)), KV("id", PyInt(0))>>)}
SoldValues ==
    {PyNone, PyStr(<<>>), EmptyDict, PyDict(<<KV("count", PyStr(<<"x">>))>>),
     PyDict(<<KV("count", PyStr(<<"1", "2">>))>>), PyDict(<<KV("count", PyNone)>>)}
ForSaleValues ==
    {PyNone, PyInt(1), EmptyDict, PyDict(<<KV("raw", PyStr(<<"a">>))>>),
     PyDict(<<KV("min", PyStr(<<"$", "1">>)), KV("max", PyStr(<<"x">>))>>)}
RawReviews ==
    {EmptyDict, PyStr(<<"a">>),
     PyDict(<<KV("rating", PyNone), KV("comment", PyNone)>>),
     PyDict(<<KV("rating", PyStr(<<"5">>)), KV("comment", PyStr(<<>>))>>),
     PyDict(<<KV("comment", PyStr(<<" ">>))>>),
     PyDict(<<KV("comment", PyInt(7))>>),
     PyDict(<<KV("comment", PyStr(<<" ", "a", " ", "b", " ">>))>>),
     PyDict(<<KV("comment", PyStr(LongText(CommentLimit)))>>),
     PyDict(<<KV("comment", PyStr(<<" ">> \o LongText(CommentLimit + 1) \o <<" ">>))>>),
     PyDict(<<KV("rating", PyFloat(5, 0)), KV("comment", PyStr(LongText(CommentLimit + 100)))>>)}
ReviewLists ==
    {PyList(q) : q \in SeqsUpTo(RawReviews, 1)}
    \cup {PyList(<<a, b>>) : a \in RawReviews, b \in {x \in RawReviews : Len(x.items) = 1}}
RecommendationValues ==
    {PyNone, PyList(<<>>), PyList(<<PyStr(<<"a">>)>>), PyList(<<EmptyDict>>),
     PyList(<<PyDict(<<KV("text", PyStr(<<" ">>))>>), PyInt(1)>>)}

FieldNames ==
    <<"description", "experience", "web_url", "title", "photo", "advertiser_id",
      "first_year", "review_count", "agent_rating", "phones", "address", "office",
      "specializations", "broker", "recently_sold", "for_sale_price", "reviews",
      "recommendations">>

\* the values tried for a field in a record of that field alone
FieldValues(field) ==
    CASE field \in {"description", "experience", "web_url", "title", "photo", "advertiser_id"}
            -> TextValues
      [] field \in {"first_year", "review_count"} -> IntValues
      [] field = "agent_rating" -> FloatValues
      [] field = "phones" -> {PyNone, PyStr(<<"5">>)}
      [] field = "address" -> AddressValues
      [] field = "office" -> OfficeValues
      [] field = "specializations" -> SpecializationValues
      [] field = "broker" -> BrokerValues
      [] field = "recently_sold" -> SoldValues
      [] field = "for_sale_price" -> ForSaleValues
      [] field = "reviews" -> {PyNone}
      [] OTHER -> RecommendationValues
\* the values tried for a field in a record of several fields
MixedValues(field) ==
    CASE field \in {"description", "experience", "web_url", "title", "photo", "advertiser_id"}
            -> {PyNone, PyStr(<<" ">>), PyStr(<<" ", "a", " ", " ", "b">>)}
      [] field \in {"first_year", "review_count"} -> {PyInt(0), PyInt(2005), PyStr(<<"x">>)}
      [] field = "agent_rating" -> {PyNone, PyFloat(45, 1), PyStr(<<".">>)}
      [] field = "phones" -> {PyList(<<>>),
                              PyList(<<PyDict(<<KV("number", PyStr(<<" ">>))>>)>>),
                              PyList(<<PyDict(<<KV("number", PyStr(<<"5">>)), KV("ext", PyStr(<<" ">>))>>)>>)}
      [] field = "address" -> {EmptyDict, PyDict(<<KV("raw", PyStr(<<" ">>))>>),
                               PyDict(<<KV("city", PyStr(<<"a", " ", " ", "b">>))>>)}
      [] field = "office" -> {EmptyDict, PyDict(<<KV("name", PyStr(<<" ">>))>>),
                              PyDict(<<KV("name", PyStr(<<" ", "a">>))>>)}
      [] field = "specializations" -> {PyList(<<>>), PyList(<<PyStr(<<" ">>)>>),
                                       PyList(<<PyStr(<<"a">>), PyStr(<<" ", "a">>)>>)}
      [] field = "broker" -> {EmptyDict, PyDict(<<KV("name", PyStr(<<" ">>))>>),
                              PyDict(<<KV("name", PyStr(<<"a">>)), KV("id", PyInt(0))>>)}
      [] field = "recently_sold" -> {EmptyDict, PyDict(<<KV("count", PyStr(<<"x">>))>>),
                                     PyDict(<<KV("count", PyStr(<<"1", "2">>))>>)}
      [] field = "for_sale_price" -> {EmptyDict, PyDict(<<KV("raw", PyStr(<<"a">>))>>),
                                      PyDict(<<KV("min", PyStr(<<"$", "1">>))>>)}
      [] field = "reviews" -> {PyList(<<>>), PyList(<<EmptyDict>>),
                               PyList(<<PyDict(<<KV("comment", PyStr(<<" ">>))>>)>>)}
      [] OTHER -> {PyList(<<>>), PyList(<<PyStr(<<"a">>)>>),
                   PyList(<<PyDict(<<KV("text", PyStr(<<" ">>))>>)>>)}

\* the entry lists over the fields p.. of FieldNames holding at most budget fields
RECURSIVE EntriesFrom(_, _)
EntriesFrom(p, budget) ==
    IF p > Len(FieldNames) \/ budget = 0 THEN {<<>>}
    ELSE EntriesFrom(p + 1, budget)
         \cup {<<KV(FieldNames[p], v)>> \o r :
                  v \in MixedValues(FieldNames[p]), r \in EntriesFrom(p + 1, budget - 1)}

RawRecords ==
    {PyDict(r) : r \in EntriesFrom(1, MaxFields)}
    \cup UNION {{PyDict(<<KV(FieldNames[p], v)>>) : v \in FieldValues(FieldNames[p])} :
                   p \in 1..Len(FieldNames)}
    \cup {PyDict(<<KV("phones", x)>>) : x \in PhoneLists}
    \cup {PyDict(<<KV("reviews", x)>>) : x \in ReviewLists}

DedupeItems ==
    {PyStr(<<"a">>), PyStr(<<"1">>), PyInt(1),
     PyDict(<<KV("number", PyStr(<<"5">>)), KV("type", PyStr(<<"M">>))>>),
     PyDict(<<KV("type", PyStr(<<"M">>)), KV("number", PyStr(<<"5">>))>>)}
DedupeLists == {PyList(q) : q \in SeqsUpTo(DedupeItems, MaxListLen)}

AgentItems ==
    {PyStr(<<"a">>), EmptyDict, PyDict(<<KV("title", PyNone)>>),
     PyDict(<<KV("title", PyStr(<<"a">>))>>), PyDict(<<KV("recently_sold", EmptyDict)>>),
     PyDict(<<KV("web_url", PyStr(<<"u">>)), KV("phones", PyList(<<>>))>>)}
AgentLists == {PyList(q) : q \in SeqsUpTo(AgentItems, MaxAgents)}

(***************************************************************************)
(* SpecClean: one call of a function of data_cleaner.py                    *)
(***************************************************************************)
IdleCleaner == fn = "" /\ arg = PyNone /\ out = PyNone /\ cpc = "idle"
IdleFetch ==
    furl = "" /\ attempt = 0 /\ gets = 0 /\ last_exc = FALSE /\ resp = "" /\ sleeps = <<>>
IdleListing == agent_links = <<>> /\ agents = <<>> /\ j = 0 /\ lorigin = <<>>
IdleDriver ==
    /\ urls = <<>> /\ limit = PyNone /\ all_agents = <<>> /\ count = 0 /\ i = 0
    /\ pc = "idle" /\ ctx = "" /\ origin = <<>> /\ failed = {}
    /\ IdleFetch /\ IdleListing
IdleProfile ==
    /\ purl = <<>> /\ page = PyNone /\ full_agent_details = FALSE /\ profile = PyNone
    /\ ppc = "idle" /\ steps = <<>> /\ caught = "" /\ data = PyNone
NoFile == [file |-> "", content |-> <<>>]
NoArgs == [formats |-> <<>>, limit |-> PyNone]
IdleMain ==
    /\ mpc = "idle" /\ args = NoArgs /\ settings = NoFile /\ input = NoFile
    /\ formats = <<>> /\ raw_agents = <<>>
    /\ cleaned_agents = <<>> /\ exported = {} /\ exit_code = -1

InitClean ==
    /\ cpc = "call"
    /\ out = PyNone
    /\ \/ fn = "clean_agent_record" /\ arg \in RawRecords
       \/ fn = "_dedupe_list" /\ arg \in DedupeLists
       \/ fn = "clean_agents" /\ arg \in AgentLists
    /\ IdleDriver /\ IdleMain /\ IdleProfile

Return(value) ==
    /\ out' = value
    /\ cpc' = "return"
    /\ UNCHANGED <<fn, arg, driver_vars, fetch_vars, listing_vars, main_vars, profile_vars>>

CallCleanAgentRecord ==
    /\ cpc = "call" /\ fn = "clean_agent_record"
    /\ Return(clean_agent_record(arg))

CallDedupeList ==
    /\ cpc = "call" /\ fn = "_dedupe_list"
    /\ Return(PyList(_dedupe_list(Elems(arg))))

CallCleanAgents ==
    /\ cpc = "call" /\ fn = "clean_agents"
    /\ Return(PyList(clean_agents(Elems(arg))))

NextClean == CallCleanAgentRecord \/ CallDedupeList \/ CallCleanAgents
SpecClean == InitClean /\ [][NextClean]_vars

(***************************************************************************)
(* extractors/realtor_parser.py                                            *)
(*                                                                         *)
(* A location is a sequence of tokens: " " (white space), Host (scheme and *)
(* host), path fragments such as "/agents/", names such as "a1", and "?"   *)
(* which starts the query.  A href is such a sequence too.                 *)
(***************************************************************************)
max_retries == 3
\* 0.8 s, in tenths of a second
backoff_factor == 8

Host == "https://www.realtor.com"
base_url == <<Host>>
\* a token that is a scheme and host: a location that starts with one is absolute
isHost(tok) == tok \in {Host, "https://other.com"}

\* urlparse(url.lower()).path : the tokens between the host and the query
PathEnd(url) ==
    IF \E p \in 1..Len(url) : url[p] = "?"
    THEN (CHOOSE p \in 1..Len(url) : url[p] = "?" /\ \A q \in 1..(p - 1) : url[q] # "?") - 1
    ELSE Len(url)
UrlPath(url) ==
    SubSeq(url, IF url # <<>> /\ isHost(url[1]) THEN 2 ELSE 1, PathEnd(url))
isProfileFragment(tok) == tok \in {"/realestateagents/", "/agents/"}
ContainsFragment(toks) == \E p \in 1..Len(toks) : isProfileFragment(toks[p])
_looks_like_agent_profile(url) == ContainsFragment(UrlPath(url))

\* urljoin(self.base_url, href): an absolute href as it is, a relative one
\* after the base, a leading ".." being resolved away at the root
urljoin(base, href) ==
    IF href # <<>> /\ isHost(href[1]) THEN href
    ELSE IF href # <<>> /\ href[1] = ".." THEN base \o Tail(href)
    ELSE base \o href

\* a listing document is the sequence of the hrefs of its anchors
RECURSIVE LinksFrom(_, _, _)
\* LinksStep without the test full_url not in links
LinksStep_KeepAll(doc, p, links, full_url) == LinksFrom(doc, p + 1, Append(links, full_url))
\* if full_url not in links: links.append(full_url)
LinksStep(doc, p, links, full_url) ==
    LinksFrom(doc, p + 1, IF \E q \in 1..Len(links) : links[q] = full_url
                          THEN links ELSE Append(links, full_url))
LinksFrom(doc, p, links) ==
    IF p > Len(doc) THEN links
    ELSE IF ~ContainsFragment(doc[p]) \/ doc[p] = <<>> THEN LinksFrom(doc, p + 1, links)
    ELSE LinksStep(doc, p, links, urljoin(base_url, doc[p]))
_extract_agent_links_from_listing(doc) == LinksFrom(doc, 1, <<>>)

\* ---- the pages served (the same for the whole run)
ProfileA1 == <<Host, "/realestateagents/", "a1">>
ProfileA2 == <<Host, "/agents/", "a2">>
ProfileA3 == <<Host, "/realestateagents/", "a3">>
Listing1 == <<Host, "/search/">>
Listing2 == <<Host, "/search/", "?", "/agents/">>
ListingDoc(url) ==
    IF url = Listing1
    THEN << <<"/realestateagents/", "a1">>, ProfileA1, <<"/about">>,
            <<"/agents/", "a2">>, <<"/realestateagents/", "a3">> >>
    ELSE IF url = Listing2
    THEN << <<"/agents/", "a2">>, <<"/search/", "?", "/agents/">> >>
    ELSE <<>>
\* ---- a profile page is what the selectors find on it: for every element
\* looked for, its text (None when there is no such element); a word such as
\* "mobile" is one token of a text
NoPage ==
    [h1 |-> PyNone, description |-> PyNone, photo |-> PyNone, experience |-> PyNone,
     phones |-> <<>>, office |-> PyNone, address |-> PyNone,
     rating |-> PyNone, review |-> PyNone, sold |-> PyNone, for_sale |-> PyNone,
     specialties |-> <<>>, cards |-> <<>>]
\* the text of the first h1 of the pages served
PageTitle(url) ==
    IF url = ProfileA1 THEN PyStr(<<"J", "a", "n", "e">>)
    ELSE IF url = ProfileA3 THEN PyStr(<<>>)
    ELSE PyNone

\* AgentProfile(): every field None, in the order of the dataclass
ProfileFields ==
    <<"first_year", "description", "phones", "review_count", "office", "agent_rating",
      "address", "specializations", "broker", "recommendations", "reviews",
      "for_sale_price", "recently_sold", "experience", "web_url", "advertiser_id",
      "title", "photo">>
AgentProfile == PyDict([p \in 1..Len(ProfileFields) |-> KV(ProfileFields[p], PyNone)])

\* s.lower() on the words used here
Lower(tok) ==
    IF tok = "Mobile" THEN "mobile" ELSE IF tok = "OFFICE" THEN "office" ELSE tok
\* word in text.lower()
HasWord(text, word) == \E p \in 1..Len(text) : Lower(text[p]) = word
\* text.split()[0] for a text with a word in it
FirstWord(text) ==
    SubSeq(strip(text), 1,
           IF \E p \in 1..Len(strip(text)) : isspace(strip(text)[p])
           THEN (CHOOSE p \in 1..Len(strip(text)) :
                    isspace(strip(text)[p]) /\ \A q \in 1..(p - 1) : ~isspace(strip(text)[q])) - 1
           ELSE Len(strip(text)))
\* float(word) returns: word is digits with at most one dot among them
isFloatWord(word) ==
    /\ OnlyDigits(word) # <<>>
    /\ \A p \in 1..Len(word) : isdigit(word[p]) \/ word[p] = "."
    /\ Cardinality({p \in 1..Len(word) : word[p] = "."}) <= 1
FloatOf(word) == PyFloat(ParseInt(OnlyDigits(word)), FracDigits(word))

\* the result of a step: the profile as the step left it, and whether the step
\* raised
Done(prof) == [profile |-> prof, raised |-> FALSE]
Raised(prof) == [profile |-> prof, raised |-> TRUE]

\* ---- _parse_basic_info
PhoneTypeOf(text) ==
    IF HasWord(text, "mobile") THEN PyStr(<<"Mobile">>)
    ELSE IF HasWord(text, "office") THEN PyStr(<<"Office">>)
    ELSE IF HasWord(text, "fax") THEN PyStr(<<"Fax">>)
    ELSE PyNone
ParsedPhone(node) ==
    PyDict(<<KV("number", PyStr(strip(node.s))), KV("type", PhoneTypeOf(strip(node.s)))>>)
ParsedPhones(nodes) == PyList([p \in 1..Len(nodes) |-> ParsedPhone(nodes[p])])
_parse_basic_info(pg, prof) ==
    SetIfTruthy(
      SetIf(pg.experience # PyNone,
        SetIfTruthy(
          SetIf(pg.description # PyNone,
            SetIf(pg.h1 # PyNone, prof, "title", PyStr(strip(pg.h1.s))),
            "description", PyStr(JoinSplit(pg.description.s))),
          "photo", pg.photo),
        "experience", PyStr(strip(pg.experience.s))),
      "phones", ParsedPhones(pg.phones))

\* ---- _parse_office_and_address
OfficeOf(block) ==
    SetIf(Truthy(PyStr(strip(Get(block, "text").s))),
      SetIf(HasKey(block, "website"),
        SetIf(HasKey(block, "name"), EmptyDict, "name", PyStr(strip(Get(block, "name").s))),
        "website", Get(block, "website")),
      "raw_address", PyStr(JoinSplit(Get(block, "text").s)))
_parse_office_and_address(pg, prof) ==
    SetIfTruthy(
      SetIf(pg.address # PyNone, prof, "address",
            PyDict(<<KV("raw", PyStr(JoinSplit(pg.address.s)))>>)),
      "office", IF pg.office = PyNone THEN EmptyDict ELSE OfficeOf(pg.office))

\* ---- _parse_reviews_and_ratings
\* the rating element is found and its text has no word: split()[0] raises
\* IndexError, which except ValueError does not catch
RatingRaises(text) == text # PyNone /\ strip(text.s) = <<>>
\* the review count, once the rating is dealt with
ReviewCount(pg, prof) ==
    SetIf(pg.review # PyNone /\ OnlyDigits(strip(pg.review.s)) # <<>>,
          prof, "review_count", PyInt(ParseInt(OnlyDigits(strip(pg.review.s)))))
_parse_reviews_and_ratings(pg, prof) ==
    IF RatingRaises(pg.rating) THEN Raised(prof)
    ELSE Done(ReviewCount(pg,
            SetIf(pg.rating # PyNone /\ isFloatWord(FirstWord(pg.rating.s)),
                  prof, "agent_rating", FloatOf(FirstWord(pg.rating.s)))))

\* ---- _parse_activity_blocks
_parse_activity_blocks(pg, prof) ==
    SetIf(pg.for_sale # PyNone,
      SetIf(pg.sold # PyNone /\ OnlyDigits(strip(pg.sold.s)) # <<>>,
            prof, "recently_sold",
            PyDict(<<KV("count", PyInt(ParseInt(OnlyDigits(strip(pg.sold.s)))))>>)),
      "for_sale_price", PyDict(<<KV("raw", PyStr(strip(pg.for_sale.s)))>>))

\* ---- _parse_detailed_sections
\* specs: the texts of the specialties that are not empty
SpecialtiesOf(nodes) ==
    PyList(SelectSeq([p \in 1..Len(nodes) |-> PyStr(strip(nodes[p].s))], Truthy))
CardRating(card) ==
    IF card.rating # PyNone /\ isFloatWord(FirstWord(card.rating.s))
    THEN FloatOf(FirstWord(card.rating.s)) ELSE PyNone
CardComment(card) == IF card.comment = PyNone THEN PyNone ELSE PyStr(strip(card.comment.s))
ParsedReview(card) == PyDict(<<KV("rating", CardRating(card)), KV("comment", CardComment(card))>>)
_parse_detailed_sections(pg, prof) ==
    IF \E p \in 1..Len(pg.cards) : RatingRaises(pg.cards[p].rating)
    THEN Raised(SetIfTruthy(prof, "specializations", SpecialtiesOf(pg.specialties)))
    ELSE Done(SetIfTruthy(
                SetIfTruthy(prof, "specializations", SpecialtiesOf(pg.specialties)),
                "reviews", PyList([p \in 1..Len(pg.cards) |-> ParsedReview(pg.cards[p])])))

\* ---- _scrape_agent_profile
\* StepNames with the reviews step before the office step
StepNames_ReviewsFirst == <<"basic", "reviews", "office", "activity", "detailed">>
\* the steps in the order of the try block
StepNames == <<"basic", "office", "reviews", "activity", "detailed">>
\* the steps of a call: the last one only if self.full_agent_details
StepsOf(full) == IF full THEN StepNames ELSE SubSeq(StepNames, 1, Len(StepNames) - 1)
RunStep(name, pg, prof) ==
    CASE name = "basic" -> Done(_parse_basic_info(pg, prof))
      [] name = "office" -> Done(_parse_office_and_address(pg, prof))
      [] name = "reviews" -> _parse_reviews_and_ratings(pg, prof)
      [] name = "activity" -> Done(_parse_activity_blocks(pg, prof))
      [] OTHER -> _parse_detailed_sections(pg, prof)
\* the try block from step k on: a step that raises ends it
RECURSIVE RunFrom(_, _, _, _)
RunFrom(k, pg, full, r) ==
    IF k > Len(StepsOf(full)) \/ r.raised THEN r
    ELSE RunFrom(k + 1, pg, full, RunStep(StepsOf(full)[k], pg, r.profile))
\* a profile whose web_url is not set
NewProfile_NoUrl(url) == AgentProfile
\* profile = AgentProfile(); profile.web_url = url
NewProfile(url) == DictSet(AgentProfile, "web_url", PyStr(url))
\* v not in (None, [], {})
isKept(entry) == entry.v \notin {PyNone, PyList(<<>>), EmptyDict}
\* {k: v for k, v in asdict(profile).items() if v not in (None, [], {})}
ProfileData(prof) == PyDict(SelectSeq(prof.items, isKept))
\* data, or None when data is empty
DataOrNone(d) == IF Truthy(d) THEN d ELSE PyNone
\* _scrape_agent_profile once the page is fetched
ScrapePage(url, pg, full) ==
    DataOrNone(ProfileData(RunFrom(1, pg, full, Done(NewProfile(url))).profile))
\* the pages served (the same for the whole run), scraped with the default
\* full_agent_details = False
PageOf(url) == [NoPage EXCEPT !.h1 = PageTitle(url)]
ParsedProfile(url) == ScrapePage(url, PageOf(url), FALSE)
\* _scrape_agent_profile, given what _get_with_retries returned
ScrapedProfile(url, response) == IF response = "none" THEN PyNone ELSE ParsedProfile(url)

\* ---- the outcome of one GET: an exception, or a response with a status code
StatusCodes == {200, 400}
Outcomes ==
    {[exc |-> TRUE, status |-> 0]} \cup {[exc |-> FALSE, status |-> c] : c \in StatusCodes}
\* OnRequestError without the except clause: the exception leaves the call
OnRequestError_Propagates(o) == "raised"
\* where _get_with_retries goes after an exception: the except clause logs and
\* falls through to the sleep
OnRequestError(o) == "sleep"
\* where _get_with_retries goes after one GET
AfterGet(o) ==
    IF o.exc THEN OnRequestError(o)
    ELSE IF o.status >= 400 THEN "sleep" ELSE "got"

\* LimitReached with the test n > limit
LimitReached_Strict(n) == limit # PyNone /\ n > limit.n
\* limit is not None and n >= limit
LimitReached(n) == limit # PyNone /\ n >= limit.n

\* Extend putting the new records in front
Extend_Front(list, more) == more \o list
\* all_agents.extend(agents_from_listing)
Extend(list, more) == list \o more

(***************************************************************************)
(* Spec: one call of scrape_from_urls                                      *)
(***************************************************************************)
MaxSeeds == 2
MaxLimit == 3

SeedUrls == {<<" ">>, <<" ">> \o ProfileA1 \o <<" ">>, ProfileA2, Listing1, Listing2}
Limits == {PyNone} \cup {PyInt(k) : k \in (-1)..MaxLimit}

\* the first statements of scrape_from_urls
StartScrape(seed_urls, lim) ==
    /\ urls = seed_urls /\ limit = lim
    /\ all_agents = <<>> /\ count = 0 /\ i = 1
    /\ pc = "loop" /\ ctx = "" /\ origin = <<>> /\ failed = {}
    /\ IdleFetch /\ IdleListing

Init ==
    /\ \E seed_urls \in SeqsUpTo(SeedUrls, MaxSeeds), lim \in Limits :
           StartScrape(seed_urls, lim)
    /\ IdleCleaner /\ IdleMain /\ IdleProfile

\* a call of _get_with_retries(url) begins
CallGet(url, who) ==
    /\ furl' = url /\ ctx' = who
    /\ attempt' = 1 /\ gets' = 0 /\ last_exc' = FALSE /\ resp' = "" /\ sleeps' = <<>>
    /\ pc' = IF max_retries >= 1 THEN "get" ELSE "got"
\* the frame of _get_with_retries is dropped
DropGet ==
    /\ furl' = "" /\ attempt' = 0 /\ gets' = 0 /\ last_exc' = FALSE /\ resp' = ""
    /\ sleeps' = <<>>

\* scrape_from_urls: one pass through the head of the for loop over urls
ScrapeLoop ==
    /\ pc = "loop"
    /\ IF i > Len(urls) \/ LimitReached(count)
       THEN /\ pc' = "done"
            /\ UNCHANGED <<i, ctx, fetch_vars>>
       ELSE IF strip(urls[i]) = <<>>
       THEN /\ i' = i + 1
            /\ UNCHANGED <<pc, ctx, fetch_vars>>
       ELSE /\ CallGet(strip(urls[i]),
                       IF _looks_like_agent_profile(strip(urls[i])) THEN "profile"
                       ELSE "listing")
            /\ UNCHANGED i
    /\ UNCHANGED <<urls, limit, all_agents, count, origin, failed>>
    /\ UNCHANGED <<listing_vars, cleaner_vars, main_vars, profile_vars>>

\* _get_with_retries: one GET
GetAttempt ==
    /\ pc = "get"
    /\ \E o \in Outcomes :
        /\ gets' = gets + 1
        /\ pc' = AfterGet(o)
        /\ last_exc' = (last_exc \/ o.exc)
        /\ resp' = IF AfterGet(o) = "got" THEN "response" ELSE resp
    /\ UNCHANGED <<furl, attempt, sleeps>>
    /\ UNCHANGED <<urls, limit, all_agents, count, i, ctx, origin, failed>>
    /\ UNCHANGED <<listing_vars, cleaner_vars, main_vars, profile_vars>>

\* _get_with_retries: the sleep after a failed GET, then the next turn of the
\* loop or, after the last turn, return None
Sleep ==
    /\ pc = "sleep"
    /\ sleeps' = Append(sleeps, backoff_factor * attempt)
    /\ IF attempt < max_retries
       THEN /\ attempt' = attempt + 1
            /\ pc' = "get"
            /\ UNCHANGED <<resp, failed>>
       ELSE /\ resp' = "none"
            /\ pc' = "got"
            /\ failed' = failed \cup {<<ctx, furl>>}
            /\ UNCHANGED attempt
    /\ UNCHANGED <<furl, gets, last_exc>>
    /\ UNCHANGED <<urls, limit, all_agents, count, i, ctx, origin>>
    /\ UNCHANGED <<listing_vars, cleaner_vars, main_vars, profile_vars>>

\* _scrape_agent_profile(url) returns to scrape_from_urls, which appends the
\* agent if there is one and goes to the next url
SeedProfileReturns ==
    /\ pc = "got" /\ ctx = "profile"
    /\ IF Truthy(ScrapedProfile(furl, resp))
       THEN /\ all_agents' = Append(all_agents, ScrapedProfile(furl, resp))
            /\ count' = count + 1
            /\ origin' = Append(origin, <<i, 0>>)
       ELSE UNCHANGED <<all_agents, count, origin>>
    /\ i' = i + 1
    /\ pc' = "loop"
    /\ ctx' = ""
    /\ DropGet
    /\ UNCHANGED <<urls, limit, failed>>
    /\ UNCHANGED <<listing_vars, cleaner_vars, main_vars, profile_vars>>

\* _scrape_listing returns result to scrape_from_urls, which extends
\* all_agents, sets count and breaks or goes to the next url
ListingReturns(result, result_origin) ==
    /\ all_agents' = Extend(all_agents, result)
    /\ origin' = origin \o [p \in 1..Len(result_origin) |-> <<i, result_origin[p]>>]
    /\ count' = Len(Extend(all_agents, result))
    /\ IF LimitReached(Len(Extend(all_agents, result)))
       THEN pc' = "done" /\ UNCHANGED i
       ELSE pc' = "loop" /\ i' = i + 1
    /\ ctx' = ""
    /\ agent_links' = <<>> /\ agents' = <<>> /\ j' = 0 /\ lorigin' = <<>>

\* _scrape_listing: the listing page is fetched (or not)
ListingFetched ==
    /\ pc = "got" /\ ctx = "listing"
    /\ IF resp = "none"
       THEN ListingReturns(<<>>, <<>>)
       ELSE /\ agent_links' = _extract_agent_links_from_listing(ListingDoc(furl))
            /\ agents' = <<>> /\ j' = 1 /\ lorigin' = <<>>
            /\ pc' = "links"
            /\ UNCHANGED <<all_agents, origin, count, i, ctx>>
    /\ DropGet
    /\ UNCHANGED <<urls, limit, failed>>
    /\ UNCHANGED <<cleaner_vars, main_vars, profile_vars>>

\* _scrape_listing: one pass through the head of the for loop over agent_links
ListingLoop ==
    /\ pc = "links"
    /\ IF j > Len(agent_links) \/ LimitReached(count + Len(agents))
       THEN /\ ListingReturns(agents, lorigin)
            /\ UNCHANGED fetch_vars
       ELSE /\ CallGet(agent_links[j], "link")
            /\ UNCHANGED <<all_agents, origin, count, i, listing_vars>>
    /\ UNCHANGED <<urls, limit, failed>>
    /\ UNCHANGED <<cleaner_vars, main_vars, profile_vars>>

\* _scrape_agent_profile(agent_url) returns to _scrape_listing, which appends
\* the agent if there is one and goes to the next link
LinkProfileReturns ==
    /\ pc = "got" /\ ctx = "link"
    /\ IF Truthy(ScrapedProfile(furl, resp))
       THEN /\ agents' = Append(agents, ScrapedProfile(furl, resp))
            /\ lorigin' = Append(lorigin, j)
       ELSE UNCHANGED <<agents, lorigin>>
    /\ j' = j + 1
    /\ pc' = "links"
    /\ ctx' = "listing"
    /\ DropGet
    /\ UNCHANGED <<urls, limit, all_agents, count, i, origin, failed, agent_links>>
    /\ UNCHANGED <<cleaner_vars, main_vars, profile_vars>>

Next ==
    \/ ScrapeLoop
    \/ GetAttempt
    \/ Sleep
    \/ SeedProfileReturns
    \/ ListingFetched
    \/ ListingLoop
    \/ LinkProfileReturns
Spec == Init /\ [][Next]_vars

(***************************************************************************)
(* SpecMain: one run of main.py                                            *)
(*                                                                         *)
(* A file as read is [file, content]: file is "missing", "invalid" (not    *)
(* JSON, or JSON of the wrong shape) or "ok"; the content of a settings    *)
(* file is its export_formats, the content of an input file its urls.      *)
(***************************************************************************)
MaxInputs == 2

\* f.strip().lower() on the format names used here
StripLower(f) ==
    IF f = " CSV " THEN "csv" ELSE IF f = "XLS" THEN "xls" ELSE IF f = " " THEN "" ELSE f
\* settings.setdefault("export_formats", ["json", "csv", "xlsx"])
DefaultFormats == <<"json", "csv", "xlsx">>
BadFiles == {[file |-> "missing", content |-> <<>>], [file |-> "invalid", content |-> <<>>]}
SettingsFiles ==
    BadFiles \cup {[file |-> "ok", content |-> fs] : fs \in {DefaultFormats, <<"pdf">>, <<" ">>}}
InputUrls == {<<>>, <<" ">>, ProfileA2 \o <<" ">>, Listing2}
InputFiles == BadFiles \cup {[file |-> "ok", content |-> us] : us \in SeqsUpTo(InputUrls, MaxInputs)}
ArgsValues ==
    {[formats |-> fs, limit |-> lim] :
        fs \in {<<>>, <<"">>, <<"pdf", " CSV ">>, <<"XLS">>}, lim \in {PyNone, PyInt(1)}}

Map(Op(_), s) == [p \in 1..Len(s) |-> Op(s[p])]
\* load_input_urls: [u.strip() for u in urls if u and isinstance(u, str)]
load_input_urls(content) == Map(strip, SelectSeq(content, LAMBDA u : u # <<>>))
\* main: the formats of --formats if given, else those of the settings
\* (--formats is falsy when absent, <<>>, or the empty string, <<"">>)
FormatsOf(arg_formats, export_formats) ==
    IF arg_formats # <<>> /\ arg_formats # <<"">>
    THEN Map(StripLower, SelectSeq(arg_formats, LAMBDA f : StripLower(f) # ""))
    ELSE Map(StripLower, export_formats)

\* ---- outputs/exporters.py: export_all
ExcelFormats == {"xls", "xlsx", "excel"}
KnownFormats == {"json", "csv", "xml"} \cup ExcelFormats
ExportKey(fmt) == IF fmt \in ExcelFormats THEN "xlsx" ELSE fmt
\* formats = [f.lower().strip() for f in formats if f]
ExportFormats(fmts) == Map(StripLower, SelectSeq(fmts, LAMBDA f : f # ""))
Range(s) == {s[p] : p \in 1..Len(s)}
\* the formats export_all tries to write
Attempted(agent_seq, fmts) ==
    IF agent_seq = <<>> THEN {} ELSE Range(ExportFormats(fmts)) \cap KnownFormats
\* export_all raises: no formats, no agents, or nothing exported
ExportRaises(agent_seq, fmts, written) ==
    ExportFormats(fmts) = <<>> \/ agent_seq = <<>> \/ written = {}

InitMain ==
    /\ mpc = "start" /\ args \in ArgsValues
    /\ settings = NoFile /\ input = NoFile
    /\ formats = <<>> /\ raw_agents = <<>>
    /\ cleaned_agents = <<>> /\ exported = {} /\ exit_code = -1
    /\ IdleCleaner /\ IdleDriver /\ IdleProfile

Exit(code) == mpc' = "exit" /\ exit_code' = code

\* main: load_settings and the choice of the formats
LoadSettings ==
    /\ mpc = "start"
    /\ \E file \in SettingsFiles :
        /\ settings' = file
        /\ IF file.file # "ok"
           THEN Exit(1) /\ UNCHANGED formats
           ELSE /\ formats' = FormatsOf(args.formats, file.content)
                /\ mpc' = "input"
                /\ UNCHANGED exit_code
    /\ UNCHANGED <<args, input, raw_agents, cleaned_agents, exported>>
    /\ UNCHANGED <<cleaner_vars, driver_vars, fetch_vars, listing_vars, profile_vars>>

\* main: load_input_urls and the call of scrape_from_urls
LoadInput ==
    /\ mpc = "input"
    /\ \E file \in InputFiles :
        /\ input' = file
        /\ IF file.file # "ok"
           THEN Exit(1) /\ UNCHANGED driver_vars
           ELSE /\ urls' = load_input_urls(file.content) /\ limit' = args.limit
                /\ all_agents' = <<>> /\ count' = 0 /\ i' = 1
                /\ pc' = "loop"
                /\ mpc' = "scrape"
                /\ UNCHANGED <<ctx, origin, failed, exit_code>>
    /\ UNCHANGED <<args, settings, formats, raw_agents, cleaned_agents, exported>>
    /\ UNCHANGED <<cleaner_vars, fetch_vars, listing_vars, profile_vars>>

\* main: clean_agents and export_all, the written formats being those of set
\* written
CleanAndExport(agent_seq, written) ==
    /\ cleaned_agents' = agent_seq
    /\ exported' = {ExportKey(f) : f \in written}
    /\ Exit(IF ExportRaises(agent_seq, formats, written) THEN 1 ELSE 0)

\* main: scrape_from_urls has returned (or raised); the rest of main
ScrapeReturns ==
    /\ mpc = "scrape" /\ pc \in {"done", "raised"}
    /\ IF pc = "raised"
       THEN Exit(1) /\ UNCHANGED <<raw_agents, cleaned_agents, exported>>
       ELSE /\ raw_agents' = all_agents
            /\ IF all_agents = <<>>
               THEN Exit(0) /\ UNCHANGED <<cleaned_agents, exported>>
               ELSE \E written \in SUBSET Attempted(clean_agents(all_agents), formats) :
                        CleanAndExport(clean_agents(all_agents), written)
    /\ UNCHANGED <<args, settings, input, formats>>
    /\ UNCHANGED <<cleaner_vars, driver_vars, fetch_vars, listing_vars, profile_vars>>

NextMain ==
    \/ LoadSettings
    \/ LoadInput
    \/ ScrapeReturns
    \/ ScrapeLoop
    \/ GetAttempt
    \/ Sleep
    \/ SeedProfileReturns
    \/ ListingFetched
    \/ ListingLoop
    \/ LinkProfileReturns
SpecMain == InitMain /\ [][NextMain]_vars

(***************************************************************************)
(* SpecProfile: one call of _scrape_agent_profile on a fetched page, step  *)
(* by step                                                                 *)
(***************************************************************************)
Txt(chars) == PyStr(chars)
BasicInfos ==
    {[h1 |-> PyNone, description |-> PyNone, photo |-> PyNone, experience |-> PyNone,
      phones |-> <<>>],
     [h1 |-> Txt(<<" ", "J", "a", "n", "e">>), description |-> Txt(<<" ", "a", " ", " ", "b">>),
      photo |-> Txt(<<"p">>), experience |-> Txt(<<"9", " ", "y">>),
      phones |-> <<Txt(<<"5", " ", "Mobile">>), Txt(<<" ", "7", " ">>)>>],
     [h1 |-> Txt(<<>>), description |-> Txt(<<" ">>), photo |-> Txt(<<>>), experience |-> PyNone,
      phones |-> <<Txt(<<"OFFICE", " ", "fax">>)>>]}
OfficeInfos ==
    {[office |-> PyNone, address |-> PyNone],
     [office |-> PyDict(<<KV("name", Txt(<<" ", "a">>)), KV("website", Txt(<<"w">>)),
                          KV("text", Txt(<<" ", "a", " ", " ", "b">>))>>),
      address |-> Txt(<<" ", "x", " ", " ", "y">>)],
     [office |-> PyDict(<<KV("text", Txt(<<" ">>))>>), address |-> Txt(<<>>)]}
RatingTexts ==
    {PyNone, Txt(<<"4", ".", "5">>), Txt(<<" ", "4", " ", "o", "f", " ", "5">>),
     Txt(<<"n", "a">>), Txt(<<>>), Txt(<<" ">>)}
ReviewTexts == {PyNone, Txt(<<"1", "2", " ", "r">>), Txt(<<"r">>)}
ActivityInfos ==
    {[sold |-> PyNone, for_sale |-> PyNone],
     [sold |-> Txt(<<"5", " ", "s">>), for_sale |-> Txt(<<" ", "f", " ">>)],
     [sold |-> Txt(<<"s">>), for_sale |-> PyNone]}
DetailedInfos ==
    {[specialties |-> <<>>, cards |-> <<>>],
     [specialties |-> <<Txt(<<" ", "a">>), Txt(<<>>)>>,
      cards |-> <<[rating |-> Txt(<<"5">>), comment |-> Txt(<<" ", "c", " ">>)]>>],
     [specialties |-> <<Txt(<<"a">>)>>,
      cards |-> <<[rating |-> PyNone, comment |-> PyNone],
                  [rating |-> Txt(<<>>), comment |-> Txt(<<"c">>)]>>],
     [specialties |-> <<>>, cards |-> <<[rating |-> Txt(<<"x">>), comment |-> PyNone]>>]}
Pages ==
    {[h1 |-> b.h1, description |-> b.description, photo |-> b.photo,
      experience |-> b.experience, phones |-> b.phones,
      office |-> o.office, address |-> o.address,
      rating |-> r, review |-> c, sold |-> a.sold, for_sale |-> a.for_sale,
      specialties |-> d.specialties, cards |-> d.cards] :
        b \in BasicInfos, o \in OfficeInfos, r \in RatingTexts, c \in ReviewTexts,
        a \in ActivityInfos, d \in DetailedInfos}
\* the urls of the call: a profile location, and the empty string
ProfileUrls == {ProfileA1, <<>>}

InitProfile ==
    /\ purl \in ProfileUrls /\ page \in Pages /\ full_agent_details \in BOOLEAN
    /\ profile = NewProfile(purl)
    /\ ppc = "basic" /\ steps = <<>> /\ caught = "" /\ data = PyNone
    /\ IdleCleaner /\ IdleDriver /\ IdleMain

\* the position after step name: the next step of the try block, or the
\* statement after it
NextStep(name, full) ==
    IF \E k \in 1..(Len(StepsOf(full)) - 1) : StepsOf(full)[k] = name
    THEN StepsOf(full)[(CHOOSE k \in 1..Len(StepsOf(full)) : StepsOf(full)[k] = name) + 1]
    ELSE "data"
\* one step of the try block; the except clause when it raises
Step(name, r) ==
    /\ ppc = name
    /\ steps' = Append(steps, name)
    /\ profile' = r.profile
    /\ caught' = IF r.raised THEN name ELSE caught
    /\ ppc' = IF r.raised THEN "data" ELSE NextStep(name, full_agent_details)
    /\ UNCHANGED <<purl, page, full_agent_details, data>>
    /\ UNCHANGED <<cleaner_vars, driver_vars, fetch_vars, listing_vars, main_vars>>

ParseBasicInfo == Step("basic", RunStep("basic", page, profile))
ParseOfficeAndAddress == Step("office", RunStep("office", page, profile))
ParseReviewsAndRatings == Step("reviews", RunStep("reviews", page, profile))
ParseActivityBlocks == Step("activity", RunStep("activity", page, profile))
ParseDetailedSections == Step("detailed", RunStep("detailed", page, profile))
\* data = {...}; return None if it is empty, else data
ReturnData ==
    /\ ppc = "data"
    /\ data' = DataOrNone(ProfileData(profile))
    /\ ppc' = "returned"
    /\ UNCHANGED <<purl, page, full_agent_details, profile, steps, caught>>
    /\ UNCHANGED <<cleaner_vars, driver_vars, fetch_vars, listing_vars, main_vars>>

NextProfile ==
    \/ ParseBasicInfo
    \/ ParseOfficeAndAddress
    \/ ParseReviewsAndRatings
    \/ ParseActivityBlocks
    \/ ParseDetailedSections
    \/ ReturnData
SpecProfile == InitProfile /\ [][NextProfile]_vars

(***************************************************************************)
(* SpecLinks: one call of _extract_agent_links_from_listing                *)
(***************************************************************************)
MaxAnchors == 3
Hrefs ==
    {<<>>, <<"/about">>, <<"/agents/", "a2">>, <<"/realestateagents/", "a1">>, ProfileA1,
     <<"/search/", "?", "/agents/">>, <<"..", "/agents/", "a2">>,
     <<"https://other.com", "/agents/", "a2">>}
ListingDocs == SeqsUpTo(Hrefs, MaxAnchors)
\* a sequence of locations as a list of strings
StrList(locs) == PyList([p \in 1..Len(locs) |-> PyStr(locs[p])])
\* the locations of a list of strings
Locs(v) == [p \in 1..Len(v.items) |-> v.items[p].v.s]

InitLinks ==
    /\ cpc = "call" /\ out = PyNone
    /\ fn = "_extract_agent_links_from_listing"
    /\ \E doc \in ListingDocs : arg = StrList(doc)
    /\ IdleDriver /\ IdleMain /\ IdleProfile

CallExtractLinks ==
    /\ cpc = "call" /\ fn = "_extract_agent_links_from_listing"
    /\ Return(StrList(_extract_agent_links_from_listing(Locs(arg))))

NextLinks == CallExtractLinks
SpecLinks == InitLinks /\ [][NextLinks]_vars

(***************************************************************************)
(* Claims about data_cleaner.py, checked under SpecClean                   *)
(***************************************************************************)
Returned(f) == cpc = "return" /\ fn = f

\* a value that is not None, not "", not [] and not {}
NonEmptyValue(v) ==
    /\ v # PyNone
    /\ ~(v.t = "str" /\ v.s = <<>>)
    /\ ~(v.t \in {"list", "dict"} /\ v.items = <<>>)

\* C3: every field present in the record returned by clean_agent_record is
\* non-empty: no field holds an empty string, an empty list, an empty mapping
\* or None.  (Fails: recently_sold = {} is copied as it is, title = " " becomes "".)
C3_EveryFieldNonEmpty ==
    Returned("clean_agent_record") =>
        \A p \in 1..Len(out.items) : NonEmptyValue(out.items[p].v)

\* the types a raw field is meant to have
ExpectedTypes(field) ==
    CASE field \in {"description", "experience", "web_url", "title", "photo", "advertiser_id"}
            -> {"str"}
      [] field \in {"first_year", "review_count"} -> {"int"}
      [] field = "agent_rating" -> {"float", "int"}
      [] field \in {"phones", "specializations", "reviews", "recommendations"} -> {"list"}
      [] OTHER -> {"dict"}
\* a raw field that is empty, None or of the wrong type
Degenerate(field, v) == ~NonEmptyValue(v) \/ v.t \notin ExpectedTypes(field)
AllDegenerate(agent) ==
    \A p \in 1..Len(agent.items) : Degenerate(agent.items[p].k, agent.items[p].v)

\* C4: a raw record in which every field is empty, None or of the wrong type
\* is cleaned to the empty mapping, and clean_agents leaves it out.
\* (Fails: {"recently_sold": {}} is cleaned to {"recently_sold": {}} and kept.)
C4_DegenerateRecordIsDropped ==
    (Returned("clean_agent_record") /\ AllDegenerate(arg)) =>
        /\ out = EmptyDict
        /\ clean_agents(<<arg>>) = <<>>

\* C5: cleaning the phones of a cleaned record again yields the same phones.
\* (Fails: ext = " " is cleaned to ext = "", which a second cleaning drops.)
C5_PhoneCleaningIdempotent ==
    Returned("clean_agent_record") =>
        Get(clean_agent_record(PyDict(<<KV("phones", Get(out, "phones"))>>)), "phones")
            = Get(out, "phones")

\* a == b in Python: the order of the keys of a mapping does not matter, and
\* numbers are compared by value
RECURSIVE PyEq(_, _)
PyEq(a, b) ==
    IF a.t = "dict" /\ b.t = "dict"
    THEN /\ Len(a.items) = Len(b.items)
         /\ \A p \in 1..Len(a.items) :
                HasKey(b, a.items[p].k) /\ PyEq(a.items[p].v, Item(b, a.items[p].k))
    ELSE IF a.t = "list" /\ b.t = "list"
    THEN /\ Len(a.items) = Len(b.items)
         /\ \A p \in 1..Len(a.items) : PyEq(a.items[p].v, b.items[p].v)
    ELSE IF a.t \in {"int", "bool", "float"} /\ b.t \in {"int", "bool", "float"}
    THEN a.n * Pow10(b.e) = b.n * Pow10(a.e)
    ELSE a = b

\* the elements of items that equal no earlier element
FirstOccurrences(items) ==
    LET first == {p \in 1..Len(items) : \A q \in 1..(p - 1) : ~PyEq(items[q], items[p])}
        F[p \in 0..Len(items)] ==
            IF p = 0 THEN <<>>
            ELSE IF p \in first THEN Append(F[p - 1], items[p]) ELSE F[p - 1]
    IN F[Len(items)]

\* C6: _dedupe_list returns a list with no two structurally equal elements,
\* holding the distinct elements of the input, each at the place of its first
\* occurrence.  (Fails: two equal mappings whose keys were inserted in a
\* different order have different repr keys, and both are kept.)
C6_DedupeByStructuralEquality ==
    Returned("_dedupe_list") =>
        /\ \A p, q \in 1..Len(out.items) :
               p # q => ~PyEq(out.items[p].v, out.items[q].v)
        /\ Elems(out) = FirstOccurrences(Elems(arg))

\* the reviews of a raw record whose comment is kept, and the reviews of the
\* cleaned record that hold a comment
HasTruthyComment(review) ==
    isinstance_dict(review) /\ HasKey(review, "comment") /\ Truthy(Get(review, "comment"))
HasComment(review) == HasKey(review, "comment")
RawCommented(agent) == SelectSeq(Elems(Get(agent, "reviews")), HasTruthyComment)
CleanedCommented(cleaned) == SelectSeq(Elems(Get(cleaned, "reviews")), HasComment)
Trimmed(comment) == strip(Str(comment))
ExpectedComment(trimmed) ==
    IF Len(trimmed) > 2000
    THEN [p \in 1..2003 |-> IF p <= 2000 THEN trimmed[p] ELSE "."]
    ELSE trimmed

\* C7: a review comment whose trimmed text is longer than 2000 characters is
\* cleaned to its first 2000 characters followed by "..."; a trimmed text of at
\* most 2000 characters is kept unchanged.
C7_CommentTruncation ==
    (Returned("clean_agent_record") /\ isinstance_list(Get(arg, "reviews"))) =>
        /\ Len(CleanedCommented(out)) = Len(RawCommented(arg))
        /\ \A p \in 1..Len(RawCommented(arg)) :
               Get(CleanedCommented(out)[p], "comment")
                   = PyStr(ExpectedComment(Trimmed(Get(RawCommented(arg)[p], "comment"))))
C7_Witness ==
    /\ Returned("clean_agent_record")
    /\ \E p \in 1..Len(RawCommented(arg)) :
           /\ Len(Trimmed(Get(RawCommented(arg)[p], "comment"))) = 2001
           /\ Len(Get(CleanedCommented(out)[p], "comment").s) = 2003

(***************************************************************************)
(* Claims about realtor_parser.py                                          *)
(***************************************************************************)
isListingSeed(url) == strip(url) # <<>> /\ ~_looks_like_agent_profile(strip(url))
ListingLinks(url) == _extract_agent_links_from_listing(ListingDoc(strip(url)))
RecordsOf(links) == [p \in 1..Len(links) |-> ParsedProfile(links[p])]
Min(a, b) == IF a <= b THEN a ELSE b
Take(s, k) == SubSeq(s, 1, Min(k, Len(s)))
\* scrape_from_urls has returned from a call with one listing seed holding N
\* links and a limit K, 0 <= K < N
OneListingSeedBelowLimit ==
    /\ pc = "done"
    /\ Len(urls) = 1 /\ isListingSeed(urls[1])
    /\ limit # PyNone /\ limit.n >= 0 /\ limit.n < Len(ListingLinks(urls[1]))
\* the links of the listing whose page was fetched, in discovery order
FetchedLinks(url) ==
    IF <<"listing", strip(url)>> \in failed THEN <<>>
    ELSE SelectSeq(ListingLinks(url), LAMBDA link : <<"link", link>> \notin failed)

\* C1 as stated: scrape_from_urls called with one listing seed whose page holds
\* N distinct profile links and a limit K < N returns exactly K records, the
\* records of the first K links in link-discovery order.
C1_ExactlyK ==
    OneListingSeedBelowLimit =>
        /\ Len(all_agents) = limit.n
        /\ all_agents = RecordsOf(Take(ListingLinks(urls[1]), limit.n))

\* C1 amended: scrape_from_urls called with one listing seed whose page holds N
\* distinct profile links and a limit K < N returns the records of the first K
\* links whose page could be fetched, in link-discovery order: exactly K records
\* when the listing page and at least K of its links are fetched, fewer when
\* fewer are, none when the listing page is not.
C1_FirstKFetched ==
    OneListingSeedBelowLimit =>
        /\ Len(all_agents) = Min(limit.n, Len(FetchedLinks(urls[1])))
        /\ all_agents = RecordsOf(Take(FetchedLinks(urls[1]), limit.n))
\* a limit of 2 on a listing of 3 links, the first of which could not be
\* fetched: the records are those of the second and third link
C1_Witness ==
    /\ OneListingSeedBelowLimit
    /\ limit.n = 2 /\ Len(ListingLinks(urls[1])) = 3
    /\ <<"link", ListingLinks(urls[1])[1]>> \in failed
    /\ Len(all_agents) = 2

\* _get_with_retries has returned None to the fetch of a seed
SeedFetchFailed == pc = "got" /\ resp = "none" /\ ctx \in {"profile", "listing"}
\* C2: when the fetch of a seed (profile or listing) fails on every one of the
\* max_retries attempts, scrape_from_urls adds no record for it and goes on
\* with the next seed; no step of the run raises.
C2_FailedSeedIsSkipped ==
    [][/\ pc' # "raised"
       /\ SeedFetchFailed =>
            /\ gets = max_retries
            /\ all_agents' = all_agents
            /\ pc' = "loop" /\ i' = i + 1]_vars
\* the first seed, a listing, failed on every attempt and the second seed gave
\* the only record
C2_Witness ==
    /\ pc = "done" /\ Len(urls) = 2
    /\ <<"listing", strip(urls[1])>> \in failed
    /\ Len(all_agents) = 1 /\ origin = << <<2, 0>> >>

\* the url a record came from: seed s itself, or link l of listing seed s
SourceUrl(o) == IF o[2] = 0 THEN strip(urls[o[1]]) ELSE ListingLinks(urls[o[1]])[o[2]]
Before(a, b) == a[1] < b[1] \/ (a[1] = b[1] /\ a[2] < b[2])
IsPrefix(s, t) == Len(s) <= Len(t) /\ SubSeq(t, 1, Len(s)) = s
\* every record is the record of its source, and the sources are in visit order
VisitOrdered ==
    /\ Len(origin) = Len(all_agents)
    /\ \A p \in 1..Len(all_agents) :
        /\ origin[p][1] \in 1..Len(urls)
        /\ origin[p][2] \in 0..Len(ListingLinks(urls[origin[p][1]]))
        /\ all_agents[p] = ParsedProfile(SourceUrl(origin[p]))
    /\ \A p, q \in 1..Len(all_agents) : p < q => Before(origin[p], origin[q])
\* C8: the list of scrape_from_urls is ordered by visit (records of an earlier
\* seed before those of a later seed, records of one listing in the order its
\* links were collected), and a record once appended is never moved or removed.
C8_AppendOnlyInVisitOrder ==
    []VisitOrdered /\ [][IsPrefix(all_agents, all_agents')]_vars
\* a profile seed then a listing seed, all fetched: four records
C8_Witness ==
    /\ pc = "done"
    /\ origin = << <<1, 0>>, <<2, 1>>, <<2, 2>>, <<2, 3>> >>
    /\ Len(all_agents) = 4

\* C10: _get_with_retries issues at most max_retries GETs for one URL, returns
\* at the first GET whose status is below 400, and sleeps backoff_factor x
\* attempt only between two attempts: when it returns, one sleep fewer than
\* GETs has been made.
C10_SleepsOnlyBetweenAttempts ==
    /\ gets <= max_retries
    /\ \A k \in 1..Len(sleeps) : sleeps[k] = backoff_factor * k
    /\ pc = "got" /\ resp = "response" => gets = attempt
    /\ pc = "got" => Len(sleeps) = gets - 1

(***************************************************************************)
(* Claims about main.py                                                    *)
(***************************************************************************)
BadFile(f) == f.file \in {"missing", "invalid"}
\* the settings file or the input file is missing or invalid, or export_all
\* was given records and wrote no format
FatalCondition ==
    \/ BadFile(settings)
    \/ BadFile(input)
    \/ cleaned_agents # <<>> /\ exported = {}
ScrapePageIsTheSteps == ppc = "returned" => data = ScrapePage(purl, page, full_agent_details)

ClaimedOrder == <<"basic", "office", "reviews", "activity", "detailed">>
ClaimedSteps == IF full_agent_details THEN ClaimedOrder ELSE SubSeq(ClaimedOrder, 1, 4)
\* the fields step name populates on the page, up to the point where it raises
PopulatedBy(name) ==
    {e \in Range(RunStep(name, page, NewProfile(<<>>)).profile.items) :
        e.k # "web_url" /\ e.v # PyNone}
\* C11: the steps of _scrape_agent_profile run in the order basic info, office
\* and address, reviews and ratings, activity blocks, detailed sections (the
\* last only with full_agent_details); when a step raises, the exception is
\* caught, no later step runs, and the profile is returned with every field
\* populated before the failure.
C11_StepsInOrderFailureKeepsFields ==
    /\ IsPrefix(steps, ClaimedSteps)
    /\ caught # "" => steps # <<>> /\ steps[Len(steps)] = caught /\ ppc \in {"data", "returned"}
    /\ ppc \in {"data", "returned"} /\ caught = "" => steps = ClaimedSteps
    /\ ppc = "returned" =>
        /\ data # PyNone
        /\ \A k \in 1..Len(steps) : \A e \in PopulatedBy(steps[k]) :
              e.v \notin {PyList(<<>>), EmptyDict} => HasKey(data, e.k) /\ Item(data, e.k) = e.v
\* the reviews step raised on a page with a title and an office: three steps
\* ran and the record has both fields
C11_Witness ==
    /\ ppc = "returned" /\ caught = "reviews"
    /\ steps = <<"basic", "office", "reviews">>
    /\ HasKey(data, "title") /\ HasKey(data, "office")

\* the rating element is found and float() does not take its first word, or
\* it has no word
RatingUnparsable ==
    /\ page.rating # PyNone
    /\ strip(page.rating.s) = <<>> \/ ~isFloatWord(FirstWord(page.rating.s))
HasDigits(text) == text # PyNone /\ OnlyDigits(strip(text.s)) # <<>>
\* C12: when the rating element is found and its text is not a float (empty
\* and whitespace-only text included), only agent_rating is left absent: the
\* reviews step does not fail, and the review count, the activity blocks and
\* (with full_agent_details) the detailed sections are extracted.
C12_BadRatingOnlyDropsRating ==
    ppc = "returned" /\ RatingUnparsable =>
        /\ ~HasKey(data, "agent_rating")
        /\ caught # "reviews"
        /\ HasDigits(page.review) => HasKey(data, "review_count")
        /\ HasDigits(page.sold) => HasKey(data, "recently_sold")
        /\ page.for_sale # PyNone => HasKey(data, "for_sale_price")
        /\ \E k \in 1..Len(steps) : steps[k] = "activity"
        /\ full_agent_details => \E k \in 1..Len(steps) : steps[k] = "detailed"

(***************************************************************************)
(* Claims about the specializations of clean_agent_record                  *)
(***************************************************************************)
\* the elements of a raw list stringified and trimmed, the empty ones dropped,
\* each kept at its first occurrence
TrimmedSpecs(raw) ==
    FirstOccurrences(SelectSeq([p \in 1..Len(raw.items) |-> PyStr(strip(Str(raw.items[p].v)))],
                               Truthy))
\* C13: for every raw specializations list, the cleaned list holds the
\* stringified and trimmed elements with every empty result dropped (also for
\* whitespace-only elements), without duplicates, in first-seen order; the
\* field is absent when nothing remains.
C13_SpecializationsTrimmedNonEmpty ==
    Returned("clean_agent_record") /\ isinstance_list(Get(arg, "specializations")) =>
        IF TrimmedSpecs(Get(arg, "specializations")) = <<>>
        THEN ~HasKey(out, "specializations")
        ELSE Get(out, "specializations") = PyList(TrimmedSpecs(Get(arg, "specializations")))

(***************************************************************************)
(* Claims about _extract_agent_links_from_listing                          *)
(***************************************************************************)
\* the places of doc whose href has a profile fragment and resolves to loc
PlacesOf(doc, loc) ==
    {p \in 1..Len(doc) : ContainsFragment(doc[p]) /\ urljoin(base_url, doc[p]) = loc}
FirstPlace(doc, loc) == CHOOSE p \in PlacesOf(doc, loc) : \A q \in PlacesOf(doc, loc) : p <= q
LinksOfDocument(doc, links) ==
    /\ \A k \in 1..Len(links) : PlacesOf(doc, links[k]) # {}
    /\ \A p \in 1..Len(doc) :
          ContainsFragment(doc[p]) => \E k \in 1..Len(links) : links[k] = urljoin(base_url, doc[p])
    /\ \A k \in 1..Len(links) : links[k] # <<>> /\ isHost(links[k][1])
    /\ \A k, l \in 1..Len(links) : k # l => links[k] # links[l]
    /\ \A k, l \in 1..Len(links) : k < l => FirstPlace(doc, links[k]) < FirstPlace(doc, links[l])
\* C14: _extract_agent_links_from_listing returns the absolute locations
\* (resolved against base_url) of every link whose href contains one of the
\* two profile path fragments, and of no other link, no location twice, in
\* the order of first occurrence in the document.
C14_LinksResolvedDistinctInOrder ==
    Returned("_extract_agent_links_from_listing") => LinksOfDocument(Locs(arg), Locs(out))
\* a document of three anchors, two of which resolve to the same location:
\* two links are returned
C14_Witness ==
    /\ Returned("_extract_agent_links_from_listing")
    /\ Locs(arg) = << <<"/agents/", "a2">>, <<"/realestateagents/", "a1">>,
                      <<"..", "/agents/", "a2">> >>
    /\ Locs(out) = <<ProfileA2, ProfileA1>>

(***************************************************************************)
(* Claims about the limit of scrape_from_urls                              *)
(***************************************************************************)
\* the records collected so far: those of all_agents and those of the
\* listing being scraped
Collected == Len(all_agents) + Len(agents)
NonNegativeLimit == limit # PyNone /\ limit.n >= 0
\* a call of _get_with_retries begins: for a seed from the loop over urls,
\* for a profile link from the loop over agent_links
FetchStarts == pc \in {"loop", "links"} /\ pc' = "get"
\* C15: during scrape_from_urls with a limit K >= 0 no fetch, of a seed or
\* of a collected profile link, is started in a state where K records are
\* already collected, so the number of collected records never exceeds K.
C15_NoFetchAtLimit ==
    /\ [](NonNegativeLimit => Collected <= limit.n)
    /\ [][NonNegativeLimit /\ FetchStarts => Collected < limit.n]_vars
\* K >= 1 records are collected inside a listing while a link is left
C15_Witness ==
    /\ pc = "links" /\ j <= Len(agent_links)
    /\ NonNegativeLimit /\ limit.n >= 1 /\ Collected = limit.n

(***************************************************************************)
(* Claims about the record _scrape_agent_profile returns                   *)
(***************************************************************************)
\* the return None of the branch if not data
EmptyProfileBranch == ppc = "returned" /\ data = PyNone
\* scrape_from_urls and _scrape_listing call _scrape_agent_profile with a
\* url that is not empty (a stripped seed, or the urljoin of an href)
DriverPassesNonEmptyUrl == ctx \in {"profile", "link"} => furl # <<>>
\* C16: once the page is fetched, _scrape_agent_profile returns a record,
\* never None, whose web_url is the url it was called with, whatever the
\* parsing steps find or raise; the branch if not data is not taken (for a
\* url that is not empty, and not for the empty url either).
C16_RecordCarriesWebUrl ==
    ppc = "returned" =>
        /\ ~EmptyProfileBranch
        /\ HasKey(data, "web_url") /\ Item(data, "web_url") = PyStr(purl)
\* a page on which nothing is found before a step raises: the record is
\* web_url alone
C16_Witness ==
    /\ ppc = "returned" /\ caught # "" /\ purl = ProfileA1
    /\ data = PyDict(<<KV("web_url", PyStr(ProfileA1))>>)

====
